---- MODULE Spec2Model ----
(***************************************************************************)
(* probot-auto-merge, src/index.ts: the event handlers, the evaluation     *)
(* cycle updatePullRequest and its scheduled recheck, for one pull request *)
(* (one owner/repo/number).  A "chain" is what one inbound event starts:   *)
(* the cycle the event triggers and the rechecks that cycle schedules.     *)
(* Every await of the code is a suspension point: an action runs from one  *)
(* platform response to the next platform call.                            *)
(***************************************************************************)
EXTENDS Naturals, Sequences, FiniteSets

VARIABLES
    platform,   \* state and merged of the pull request, as the platform holds them
    cycles,     \* chain id -> the state of its current evaluation cycle
    agg         \* the review aggregation of lines 78-86, run on its own

vars == <<platform, cycles, agg>>

----------------------------------------------------------------------------
(* Bounds of the model *)

MaxChains  == 2     \* chains that may be in flight together (SpecRace)
MaxReviews == 2     \* length of a review list
MaxChecks  == 2     \* length of a check-run list
MaxTime    == 2     \* submitted_at takes the values 1..MaxTime

(* Program constants *)

DefaultMinApprovals        == 1
DefaultMaxRequestedChanges == 0

----------------------------------------------------------------------------
(* Data *)

Chains == 1..MaxChains
Users  == {"alice", "bob"}
Shas   == {"sha1", "sha2"}

ReviewStates == {"APPROVED", "CHANGES_REQUESTED", "COMMENTED"}
Reviews      == [user : Users, state : ReviewStates, submitted_at : 1..MaxTime]

\* status and conclusion of a check run; conclusion is null until completed
CheckRuns ==
    [status : {"queued", "in_progress"}, conclusion : {"null"}]
    \cup [status : {"completed"},
          conclusion : {"success", "neutral", "failure", "cancelled",
                        "timed_out", "action_required"}]

\* state, merged, mergeable (true | false | null) and head.sha of a pull request
PullRequests ==
    [state : {"open", "closed"}, merged : BOOLEAN,
     mergeable : {"true", "false", "null"}, sha : Shas]

\* what the platform holds of the pull request between two calls: open,
\* closed, or merged and closed.  Its mergeable flag and head, like its reviews
\* and check runs, are whatever the platform answers when it is asked.
PlatformStates ==
    {p \in [state : {"open", "closed"}, merged : BOOLEAN] : p.merged => p.state = "closed"}

defaultConfig ==
    [minApprovals |-> DefaultMinApprovals,
     maxRequestedChanges |-> DefaultMaxRequestedChanges]

\* what loadConfig can return: auto-merge.yml over the defaults
Configs == [minApprovals : 0..1, maxRequestedChanges : 0..1]

SeqsUpTo(S, n) == UNION {[1..k -> S] : k \in 0..n}

ReviewLists == SeqsUpTo(Reviews, MaxReviews)
CheckLists  == SeqsUpTo(CheckRuns, MaxChecks)

\* the reduced inputs of SpecRace
RaceReviewLists ==
    {<<>>} \cup {<<r>> : r \in {x \in Reviews : x.user = "alice" /\ x.submitted_at = 1}}
RaceCheckLists ==
    {<<>>} \cup {<<k>> : k \in {x \in CheckRuns : x.conclusion \in {"null", "success", "failure"}}}

RacePullRequests == {p \in PullRequests : p.sha = "sha1" /\ p.mergeable = "true"}

\* the configs of SpecPair
PairConfigs == {defaultConfig, [minApprovals |-> 0, maxRequestedChanges |-> 1]}

NoReviews == [u \in {} |-> "APPROVED"]

InitialPullRequest ==
    [state |-> "open", merged |-> FALSE, mergeable |-> "null", sha |-> "sha1"]

InitialPlatform == [state |-> "open", merged |-> FALSE]

----------------------------------------------------------------------------
(* The review aggregation, lines 79-86 *)

\* the comparator of line 82: a before b iff a.submitted_at - b.submitted_at < 0
Before(a, b) == a.submitted_at < b.submitted_at

\* insert r behind every element that does not come after it (a stable sort)
RECURSIVE Insert(_, _)
Insert(s, r) ==
    IF s = <<>> THEN <<r>>
    ELSE IF Before(r, s[Len(s)]) THEN Append(Insert(SubSeq(s, 1, Len(s) - 1), r), s[Len(s)])
    ELSE Append(s, r)

\* reviews.sort(...), line 82: ascending submitted_at, ties in input order
RECURSIVE SortBySubmittedAt(_)
SortBySubmittedAt(reviews) ==
    IF reviews = <<>> THEN <<>>
    ELSE Insert(SortBySubmittedAt(SubSeq(reviews, 1, Len(reviews) - 1)),
                reviews[Len(reviews)])

\* a fold that keeps a reviewer's first entry instead of overwriting it
KeptFirst(state, review) ==
    [u \in DOMAIN state \cup {review.user} |->
        IF u \in DOMAIN state THEN state[u] ELSE review.state]

\* ({...state, [review.user.login]: review.state}), lines 83-86
Overwritten(state, review) ==
    [u \in DOMAIN state \cup {review.user} |->
        IF u = review.user THEN review.state ELSE state[u]]

\* .reduce(..., {}), lines 83-86
RECURSIVE Reduce(_, _)
Reduce(reviews, state) ==
    IF reviews = <<>> THEN state
    ELSE Reduce(Tail(reviews), Overwritten(state, Head(reviews)))

\* latestReviews, lines 79-86
LatestReviews(reviews) == Reduce(SortBySubmittedAt(reviews), NoReviews)

\* reviewStates.filter(reviewState => reviewState === wanted).length, lines 95, 101
CountOf(latestReviews, wanted) ==
    Cardinality({u \in DOMAIN latestReviews : latestReviews[u] = wanted})

changesRequestedCount(latestReviews) == CountOf(latestReviews, "CHANGES_REQUESTED")
approvalCount(latestReviews)         == CountOf(latestReviews, "APPROVED")

\* the test of line 96 with the threshold its name suggests
TooManyChangesRequestedUncrossed(latestReviews, config) ==
    changesRequestedCount(latestReviews) > config.maxRequestedChanges

\* the test of line 96
TooManyChangesRequested(latestReviews, config) ==
    changesRequestedCount(latestReviews) > config.minApprovals

\* the test of line 102
NotEnoughApprovals(latestReviews, config) ==
    approvalCount(latestReviews) < config.maxRequestedChanges

----------------------------------------------------------------------------
(* The check aggregation, lines 113-125 *)

\* an every() that is false of the empty list
someAndAllChecksCompleted(checkRuns) ==
    /\ checkRuns # <<>>
    /\ \A i \in 1..Len(checkRuns) : checkRuns[i].status = "completed"

\* checkRuns.every(checkRun => checkRun.status === 'completed'), line 113
allChecksCompleted(checkRuns) ==
    \A i \in 1..Len(checkRuns) : checkRuns[i].status = "completed"

\* the keys of checkConclusions, lines 121-123
checkConclusions(checkRuns) == {checkRuns[i].conclusion : i \in 1..Len(checkRuns)}

\* a blocking test that forgets timed_out and action_required
checksBlockingFailedOrCancelled(checkRuns) ==
    \/ "failure" \in checkConclusions(checkRuns)
    \/ "cancelled" \in checkConclusions(checkRuns)

\* a blocking test that looks for a failure only
checksBlockingOnFailure(checkRuns) == "failure" \in checkConclusions(checkRuns)

\* checksBlocking, line 125
checksBlocking(checkRuns) ==
    \/ "failure" \in checkConclusions(checkRuns)
    \/ "cancelled" \in checkConclusions(checkRuns)
    \/ "timed_out" \in checkConclusions(checkRuns)
    \/ "action_required" \in checkConclusions(checkRuns)

----------------------------------------------------------------------------
(* One evaluation cycle: updatePullRequest, lines 53-133 *)

\* a chain with no cycle: pc is where the cycle stands, origin what started the
\* cycle, the counters what the cycle has issued, timers the pending rechecks
\* this chain has scheduled.  Of a cycle a timer started, stale records that
\* the platform's state, merged or mergeable differed, when the timer fired,
\* from the pull request object the cycle ran on, and gone that the platform
\* had the pull request open and unmerged when the recheck was scheduled and
\* closed or merged when it fired.  raced records that another cycle's merge
\* call merged the pull request while this cycle's merge call was outstanding.
\* ref is the commit listForRef was called with; first holds the head commit
\* and the config of the cycle that the chain's event triggered.
IdleCycle ==
    [pc |-> "idle", origin |-> "none",
     pullRequest |-> InitialPullRequest, config |-> defaultConfig,
     latestReviews |-> NoReviews, checkRuns |-> <<>>,
     outcome |-> "NONE", log |-> "", failed |-> "none", sink |-> "none",
     mergeCalls |-> 0, rechecks |-> 0,
     prReads |-> 0, reviewReads |-> 0, checkReads |-> 0,
     timers |-> <<>>, stale |-> FALSE, gone |-> FALSE, raced |-> FALSE,
     ref |-> "none", first |-> [sha |-> "none", config |-> defaultConfig]]

\* a cycle about to run, for the event (or the timer) given
NewCycle(origin, config) ==
    [IdleCycle EXCEPT !.pc = "start", !.origin = origin, !.config = config]

Live(p) == p.state = "open" /\ ~p.merged

SameToRules(p, q) == p.state = q.state /\ p.merged = q.merged

\* a blocked cycle that schedules a recheck before it returns
BlockedAndRechecked(cycle, msg) ==
    [cycle EXCEPT !.pc = "done", !.outcome = "BLOCKED", !.log = msg,
                  !.rechecks = @ + 1,
                  !.timers = Append(@, [pullRequest |-> cycle.pullRequest,
                                        config |-> cycle.config,
                                        live |-> Live(platform)])]

\* log(msg); return: lines 63-64, 68-69, 73-74, 97-98, 103-104, 127-128
Blocked(cycle, msg) ==
    [cycle EXCEPT !.pc = "done", !.outcome = "BLOCKED", !.log = msg]

\* a failed call that is caught and answered by scheduling a recheck
ThrowAndRechecked(cycle, call) ==
    [cycle EXCEPT !.pc = "done", !.outcome = "ERROR", !.failed = call,
                  !.sink = IF cycle.origin = "timer" THEN "unhandled" ELSE "framework",
                  !.rechecks = @ + 1,
                  !.timers = Append(@, [pullRequest |-> cycle.pullRequest,
                                        config |-> cycle.config,
                                        live |-> Live(platform)])]

\* a rejected await: nothing in updatePullRequest catches it.  An event handler
\* awaits the cycle (lines 23, 31, 39, 49), so its rejection reaches the
\* framework; setTimeout drops the promise of its callback (lines 116-118).
Throw(cycle, call) ==
    [cycle EXCEPT !.pc = "done", !.outcome = "ERROR", !.failed = call,
                  !.sink = IF cycle.origin = "timer" THEN "unhandled" ELSE "framework"]

\* a mergeable test that takes null (not yet computed) for mergeable
NotMergeableWhenFalse(pullRequest) == pullRequest.mergeable = "false"

\* the test of line 72: !pullRequest.mergeable
NotMergeable(pullRequest) == pullRequest.mergeable # "true"

\* rules that look at what the platform holds now instead of the pull request
\* object handed in
EnterOnPlatformState(cycle, pullRequest) ==
    LET c == [cycle EXCEPT !.pullRequest = pullRequest,
                           !.first = IF cycle.origin = "timer" THEN @
                                     ELSE [sha |-> pullRequest.sha, config |-> cycle.config]] IN
    IF platform.state # "open" THEN Blocked(c, "Pull request not open")
    ELSE IF platform.merged THEN Blocked(c, "Pull request was already merged")
    ELSE IF pullRequest.mergeable # "true" THEN Blocked(c, "Pull request is not mergeable")
    ELSE [c EXCEPT !.pc = "getReviews", !.reviewReads = @ + 1]

\* lines 53-77: rules on the pull request object handed in, then getReviews
Enter(cycle, pullRequest) ==
    LET c == [cycle EXCEPT !.pullRequest = pullRequest,
                           !.first = IF cycle.origin = "timer" THEN @
                                     ELSE [sha |-> pullRequest.sha, config |-> cycle.config]] IN
    IF pullRequest.state # "open" THEN Blocked(c, "Pull request not open")
    ELSE IF pullRequest.merged THEN Blocked(c, "Pull request was already merged")
    ELSE IF NotMergeable(pullRequest) THEN Blocked(c, "Pull request is not mergeable")
    ELSE [c EXCEPT !.pc = "getReviews", !.reviewReads = @ + 1]

\* the reviews arrived and the check runs are listed before the thresholds
\* are looked at
AfterReviewsListingFirst(cycle, reviews) ==
    [cycle EXCEPT !.latestReviews = LatestReviews(reviews),
                  !.pc = "listChecks", !.checkReads = @ + 1,
                  !.ref = cycle.pullRequest.sha]

\* lines 78-106: the reviews arrived; the two thresholds, then listForRef
AfterReviews(cycle, reviews) ==
    LET c == [cycle EXCEPT !.latestReviews = LatestReviews(reviews)] IN
    IF TooManyChangesRequested(c.latestReviews, c.config)
    THEN Blocked(c, "There are changes requested by a reviewer")
    ELSE IF NotEnoughApprovals(c.latestReviews, c.config)
    THEN Blocked(c, "There are not enough approvals by reviewers")
    ELSE [c EXCEPT !.pc = "listChecks", !.checkReads = @ + 1, !.ref = c.pullRequest.sha]

\* a recheck scheduled twice
RecheckTwice(cycle) ==
    LET closure == [pullRequest |-> cycle.pullRequest, config |-> cycle.config,
                    live |-> Live(platform)] IN
    [cycle EXCEPT !.pc = "done", !.outcome = "PENDING",
                  !.log = "There are still pending checks. Scheduling recheck.",
                  !.rechecks = @ + 2,
                  !.timers = Append(Append(@, closure), closure)]

\* a recheck that is to run with the default config
RecheckWithDefaultConfig(cycle) ==
    [cycle EXCEPT !.pc = "done", !.outcome = "PENDING",
                  !.log = "There are still pending checks. Scheduling recheck.",
                  !.rechecks = @ + 1,
                  !.timers = Append(@, [pullRequest |-> cycle.pullRequest,
                                        config |-> defaultConfig,
                                        live |-> Live(platform)])]

\* lines 115-119: setTimeout(() => updatePullRequest(context, pullRequest, config))
Recheck(cycle) ==
    [cycle EXCEPT !.pc = "done", !.outcome = "PENDING",
                  !.log = "There are still pending checks. Scheduling recheck.",
                  !.rechecks = @ + 1,
                  !.timers = Append(@, [pullRequest |-> cycle.pullRequest,
                                        config |-> cycle.config,
                                        live |-> Live(platform)])]

\* the check runs arrived and the conclusions are tested before the statuses
AfterChecksBlockingFirst(cycle, checkRuns) ==
    LET c == [cycle EXCEPT !.checkRuns = checkRuns] IN
    IF checksBlocking(checkRuns) THEN Blocked(c, "There are blocking checks")
    ELSE IF ~allChecksCompleted(checkRuns) THEN Recheck(c)
    ELSE [c EXCEPT !.pc = "merge", !.mergeCalls = @ + 1]

\* the check runs arrived and blocking checks are waited for like pending ones
AfterChecksRetryingBlocking(cycle, checkRuns) ==
    LET c == [cycle EXCEPT !.checkRuns = checkRuns] IN
    IF ~allChecksCompleted(checkRuns) \/ checksBlocking(checkRuns) THEN Recheck(c)
    ELSE [c EXCEPT !.pc = "merge", !.mergeCalls = @ + 1]

\* the check runs arrived and the recheck branch does not return
AfterChecksFallingThrough(cycle, checkRuns) ==
    LET c == [cycle EXCEPT !.checkRuns = checkRuns] IN
    IF ~allChecksCompleted(checkRuns)
    THEN IF checksBlocking(checkRuns) THEN Blocked(Recheck(c), "There are blocking checks")
         ELSE [Recheck(c) EXCEPT !.pc = "merge", !.outcome = "NONE", !.mergeCalls = @ + 1]
    ELSE IF checksBlocking(checkRuns) THEN Blocked(c, "There are blocking checks")
    ELSE [c EXCEPT !.pc = "merge", !.mergeCalls = @ + 1]

\* lines 107-130: the check runs arrived; recheck, block, or call merge
AfterChecks(cycle, checkRuns) ==
    LET c == [cycle EXCEPT !.checkRuns = checkRuns] IN
    IF ~allChecksCompleted(checkRuns) THEN Recheck(c)
    ELSE IF checksBlocking(checkRuns) THEN Blocked(c, "There are blocking checks")
    ELSE [c EXCEPT !.pc = "merge", !.mergeCalls = @ + 1]

\* line 132, after the merge call returned
Merged(cycle) ==
    [cycle EXCEPT !.pc = "done", !.outcome = "MERGED", !.log = "Merge pull request"]

----------------------------------------------------------------------------
(* The platform *)

\* the merge endpoint merges no pull request that is closed or merged already
PlatformAcceptsMerge(p) == p.state = "open" /\ ~p.merged

PlatformMerged(p) == [p EXCEPT !.state = "closed", !.merged = TRUE]

\* anyone else closing, reopening or merging the pull request
PlatformChange ==
    /\ \E p \in PlatformStates :
          /\ p # platform
          /\ platform.merged => p = platform
          /\ platform' = p
    /\ UNCHANGED <<cycles, agg>>

----------------------------------------------------------------------------
(* The handlers and the steps of a cycle *)

\* a chain that has not yet taken its event
Free(c) == cycles[c].pc = "idle"

\* lines 16-24: a pull_request or pull_request_review event; the cycle runs on
\* the pull request of the payload
PullRequestEvent(c, payloads, configs) ==
    /\ Free(c)
    /\ \E payload \in payloads, config \in configs :
          cycles' = [cycles EXCEPT ![c] =
                        Enter(NewCycle("pull_request", config), payload)]
    /\ UNCHANGED <<platform, agg>>

\* lines 26-51: a check_run or check_suite event naming the pull request;
\* updateCheckPullRequests calls pullRequests.get
CheckEvent(c, configs) ==
    /\ Free(c)
    /\ \E config \in configs :
          cycles' = [cycles EXCEPT ![c] =
                        [NewCycle("check", config) EXCEPT !.pc = "getPR", !.prReads = @ + 1]]
    /\ UNCHANGED <<platform, agg>>

\* lines 47-49: pullRequests.get answers, or fails
GetPullRequest(c, answers) ==
    /\ cycles[c].pc = "getPR"
    /\ \/ \E pullRequest \in answers :
             /\ SameToRules(pullRequest, platform)
             /\ cycles' = [cycles EXCEPT ![c] = Enter(@, pullRequest)]
       \/ cycles' = [cycles EXCEPT ![c] = Throw(@, "pullRequests.get")]
    /\ UNCHANGED <<platform, agg>>

\* line 77: getReviews answers, or fails
GetReviews(c, lists) ==
    /\ cycles[c].pc = "getReviews"
    /\ \/ \E reviews \in lists : cycles' = [cycles EXCEPT ![c] = AfterReviews(@, reviews)]
       \/ cycles' = [cycles EXCEPT ![c] = Throw(@, "pullRequests.getReviews")]
    /\ UNCHANGED <<platform, agg>>

\* line 106: listForRef answers, or fails
ListChecks(c, lists) ==
    /\ cycles[c].pc = "listChecks"
    /\ \/ \E checkRuns \in lists : cycles' = [cycles EXCEPT ![c] = AfterChecks(@, checkRuns)]
       \/ cycles' = [cycles EXCEPT ![c] = Throw(@, "checks.listForRef")]
    /\ UNCHANGED <<platform, agg>>

\* line 130: the merge call answers: merged, or not (rejected by the platform:
\* closed, merged already, conflicting; or the call failed)
Merge(c) ==
    /\ cycles[c].pc = "merge"
    /\ \/ /\ PlatformAcceptsMerge(platform)
          /\ platform' = PlatformMerged(platform)
          /\ cycles' = [d \in Chains |->
                           IF d = c THEN Merged(cycles[d])
                           ELSE IF cycles[d].pc = "merge" THEN [cycles[d] EXCEPT !.raced = TRUE]
                           ELSE cycles[d]]
       \/ /\ platform' = platform
          /\ cycles' = [cycles EXCEPT ![c] = Throw(@, "pullRequests.merge")]
    /\ UNCHANGED agg

\* lines 116-118: the timer fires; the callback runs updatePullRequest with the
\* context, pullRequest and config it closed over
TimerFire(c) ==
    /\ cycles[c].pc = "done"
    /\ cycles[c].timers # <<>>
    /\ LET closure == Head(cycles[c].timers) IN
          cycles' = [cycles EXCEPT ![c] =
                        Enter([NewCycle("timer", closure.config)
                                  EXCEPT !.timers = Tail(cycles[c].timers),
                                         !.first = cycles[c].first,
                                         !.stale = ~SameToRules(platform, closure.pullRequest),
                                         !.gone = closure.live /\ ~Live(platform)],
                              closure.pullRequest)]
    /\ UNCHANGED <<platform, agg>>

Step(c, payloads, configs, reviewLists, checkLists) ==
    \/ PullRequestEvent(c, payloads, configs)
    \/ CheckEvent(c, configs)
    \/ GetPullRequest(c, payloads)
    \/ GetReviews(c, reviewLists)
    \/ ListChecks(c, checkLists)
    \/ Merge(c)
    \/ TimerFire(c)

----------------------------------------------------------------------------
(* The review aggregation on its own: lines 78-86 on any review list *)

IdleAgg ==
    [pc |-> "idle", response |-> <<>>, reviews |-> <<>>, latestReviews |-> NoReviews]

\* line 78: reviews = reviewsResponse.data
InitReviews ==
    /\ platform = InitialPlatform
    /\ cycles = [c \in Chains |-> IdleCycle]
    /\ \E response \in ReviewLists :
          agg = [IdleAgg EXCEPT !.pc = "sort", !.response = response, !.reviews = response]

\* line 82: reviews.sort(...) sorts the array in place
SortReviews ==
    /\ agg.pc = "sort"
    /\ agg' = [agg EXCEPT !.pc = "reduce", !.reviews = SortBySubmittedAt(@)]
    /\ UNCHANGED <<platform, cycles>>

\* lines 83-86: .reduce(..., {})
ReduceReviews ==
    /\ agg.pc = "reduce"
    /\ agg' = [agg EXCEPT !.pc = "done", !.latestReviews = Reduce(agg.reviews, NoReviews)]
    /\ UNCHANGED <<platform, cycles>>

NextReviews == SortReviews \/ ReduceReviews

SpecReviews == InitReviews /\ [][NextReviews]_vars

----------------------------------------------------------------------------
(* One pull request and the chains of its events *)

Init ==
    /\ platform = InitialPlatform
    /\ cycles = [c \in Chains |-> IdleCycle]
    /\ agg = IdleAgg

\* one chain, the full inputs
Next ==
    \/ \E c \in {1} : Step(c, PullRequests, Configs, ReviewLists, CheckLists)
    \/ PlatformChange

Spec == Init /\ [][Next]_vars

\* MaxChains chains in flight together, the reduced inputs
NextRace ==
    \/ \E c \in Chains : Step(c, RacePullRequests, {defaultConfig}, RaceReviewLists, RaceCheckLists)
    \/ PlatformChange

SpecRace == Init /\ [][NextRace]_vars

\* two chains, to compare two cycles; the reduced inputs
NextPair ==
    \/ \E c \in {1, 2} :
          Step(c, RacePullRequests, PairConfigs, RaceReviewLists, RaceCheckLists)
    \/ PlatformChange

SpecPair == Init /\ [][NextPair]_vars

\* one chain, the reduced inputs, for what a chain does in the end
NextLive ==
    \/ \E c \in {1} :
          Step(c, RacePullRequests, PairConfigs, RaceReviewLists, RaceCheckLists)
    \/ PlatformChange

\* every awaited call answers or fails (lines 47, 77, 106, 130) and a timer
\* that was set fires (line 116)
LiveFairness ==
    /\ WF_vars(GetPullRequest(1, RacePullRequests))
    /\ WF_vars(GetReviews(1, RaceReviewLists))
    /\ WF_vars(ListChecks(1, RaceCheckLists))
    /\ WF_vars(Merge(1))
    /\ WF_vars(TimerFire(1))

SpecLive == Init /\ [][NextLive]_vars /\ LiveFairness

----------------------------------------------------------------------------
(* The claims *)

EventOrigins == {"pull_request", "check"}

PlatformReads == {"pullRequests.get", "pullRequests.getReviews", "checks.listForRef"}

BlockingConclusions == {"failure", "cancelled", "timed_out", "action_required"}

Reviewers(latestReviews, state) == {u \in DOMAIN latestReviews : latestReviews[u] = state}

\* C1: a cycle, whether an event or a recheck started it, has issued the merge
\* call only if the pull request it evaluated is open, not merged and
\* mergeable, the reviewers whose latest review is CHANGES_REQUESTED are at
\* most min-approvals, those whose latest review is APPROVED are at least
\* max-requested-changes, every check run it listed is completed and none has
\* the conclusion failure, cancelled, timed_out or action_required.
C1_MergeOnlyWhenAllHold ==
    \A c \in Chains :
        LET k == cycles[c] IN
        k.mergeCalls > 0 =>
            /\ k.pullRequest.state = "open"
            /\ k.pullRequest.merged = FALSE
            /\ k.pullRequest.mergeable = "true"
            /\ Cardinality(Reviewers(k.latestReviews, "CHANGES_REQUESTED")) <= k.config.minApprovals
            /\ Cardinality(Reviewers(k.latestReviews, "APPROVED")) >= k.config.maxRequestedChanges
            /\ \A i \in 1..Len(k.checkRuns) : k.checkRuns[i].status = "completed"
            /\ \A i \in 1..Len(k.checkRuns) : k.checkRuns[i].conclusion \notin BlockingConclusions

\* a recheck that issued the merge call with a reviewer requesting changes and
\* two check runs listed
C1_Witness ==
    \E c \in Chains :
        /\ cycles[c].mergeCalls = 1
        /\ cycles[c].origin = "timer"
        /\ Reviewers(cycles[c].latestReviews, "CHANGES_REQUESTED") # {}
        /\ Len(cycles[c].checkRuns) = 2

\* C2 (as claimed): a cycle that a timer started runs its rules 1-3 on the
\* pull request as read from the platform: on the state and merged flag the
\* platform held when the timer fired.
C2_RecheckReadsFreshState ==
    \A c \in Chains : cycles[c].origin = "timer" => ~cycles[c].stale

\* C3 (as claimed): a recheck whose pull request was closed or merged on the
\* platform between its scheduling and its firing issues no merge call and
\* schedules no further recheck.
C3_RecheckOfGonePullRequestIsNoOp ==
    \A c \in Chains :
        cycles[c].origin = "timer" /\ cycles[c].gone =>
            cycles[c].mergeCalls = 0 /\ cycles[c].rechecks = 0 /\ cycles[c].timers = <<>>

\* C4 (as claimed): a cycle that an inbound event triggered has read the pull
\* request from the platform before it issues the merge call.
C4_EventCycleReadsBeforeMerge ==
    \A c \in Chains :
        cycles[c].origin \in EventOrigins /\ cycles[c].mergeCalls > 0 =>
            cycles[c].prReads >= 1

\* C5: a cycle that listed the check runs (rules 1-5 passed) and found one not
\* completed has issued no merge call and scheduled exactly one recheck, which
\* holds the pull request the cycle ran on.
C5_PendingSchedulesOneRecheck ==
    \A c \in Chains :
        LET k == cycles[c] IN
        (\E i \in 1..Len(k.checkRuns) : k.checkRuns[i].status # "completed") =>
            /\ k.outcome = "PENDING"
            /\ k.mergeCalls = 0
            /\ k.rechecks = 1
            /\ Len(k.timers) = 1
            /\ k.timers[1].pullRequest = k.pullRequest

\* a recheck that found a check run still queued beside a completed one
C5_Witness ==
    \E c \in Chains :
        /\ cycles[c].origin = "timer"
        /\ cycles[c].outcome = "PENDING"
        /\ \E i, j \in 1..Len(cycles[c].checkRuns) :
              /\ cycles[c].checkRuns[i].status = "queued"
              /\ cycles[c].checkRuns[j].status = "completed"

\* C6: a cycle that ends BLOCKED has issued no merge call and scheduled no
\* recheck, no recheck of its chain is pending, and nothing happens to the chain
\* afterwards: only another event evaluates the pull request again.
C6_BlockedTakesNoAction ==
    [][\A c \in Chains :
          cycles'[c].outcome = "BLOCKED" =>
              /\ cycles'[c].pc = "done"
              /\ cycles'[c].mergeCalls = 0
              /\ cycles'[c].rechecks = 0
              /\ cycles'[c].timers = <<>>
              /\ cycles[c].outcome = "BLOCKED" => cycles'[c] = cycles[c]]_vars

\* a recheck blocked by a check conclusion
C6_Witness ==
    \E c \in Chains :
        /\ cycles[c].outcome = "BLOCKED"
        /\ cycles[c].origin = "timer"
        /\ cycles[c].log = "There are blocking checks"

\* C7: a cycle in which a platform read failed is over: it has issued no merge
\* call, scheduled no recheck, and issued each read at most once.
C7_FailedReadAborts ==
    \A c \in Chains :
        LET k == cycles[c] IN
        k.failed \in PlatformReads =>
            /\ k.pc = "done"
            /\ k.outcome = "ERROR"
            /\ k.mergeCalls = 0
            /\ k.rechecks = 0
            /\ k.timers = <<>>
            /\ k.prReads <= 1 /\ k.reviewReads <= 1 /\ k.checkReads <= 1

\* the check-run listing failed in a cycle a check event started
C7_Witness ==
    \E c \in Chains :
        /\ cycles[c].failed = "checks.listForRef"
        /\ cycles[c].origin = "check"
        /\ cycles[c].prReads = 1 /\ cycles[c].reviewReads = 1 /\ cycles[c].checkReads = 1

\* C8 (as claimed): the error of every failed platform read or merge call, in a
\* cycle a recheck runs too, reaches the framework.
C8_EveryErrorSurfaces ==
    \A c \in Chains : cycles[c].outcome = "ERROR" => cycles[c].sink = "framework"

\* C9 (as claimed): a cycle whose merge call was outstanding while another
\* cycle's merge call merged the pull request ends without raising an error.
C9_SecondMergeIsBenign ==
    \A c \in Chains :
        cycles[c].raced /\ cycles[c].pc = "done" => cycles[c].outcome # "ERROR"

UsersOf(reviews) == {reviews[i].user : i \in 1..Len(reviews)}

\* C10: the mapping built from a review list has one entry per reviewer of the
\* list and no other, each entry the state of a review of that reviewer that
\* no other review of theirs is submitted after; the empty list gives the
\* empty mapping.
C10_LatestReviewPerReviewer ==
    agg.pc = "done" =>
        /\ DOMAIN agg.latestReviews = UsersOf(agg.response)
        /\ \A u \in UsersOf(agg.response) :
              \E i \in 1..Len(agg.response) :
                  /\ agg.response[i].user = u
                  /\ agg.response[i].state = agg.latestReviews[u]
                  /\ \A j \in 1..Len(agg.response) :
                        agg.response[j].user = u =>
                            agg.response[j].submitted_at <= agg.response[i].submitted_at
        /\ agg.response = <<>> => agg.latestReviews = NoReviews

\* a reviewer whose later review comes first in the list and differs in state
C10_Witness ==
    /\ agg.pc = "done"
    /\ Len(agg.response) = 2
    /\ agg.response[1].user = agg.response[2].user
    /\ agg.response[1].submitted_at > agg.response[2].submitted_at
    /\ agg.response[1].state # agg.response[2].state
    /\ agg.latestReviews[agg.response[1].user] = agg.response[1].state

\* the cycle has the answer of listForRef
Listed(k) == k.checkReads = 1 /\ k.pc \in {"merge", "done"} /\ k.failed # "checks.listForRef"

\* C11: a cycle that listed the check runs took them for all completed (it went
\* on to the conclusions instead of scheduling a recheck) exactly when every
\* one has status completed; with no check run at all it has issued the merge
\* call and scheduled no recheck.
C11_AllCompletedIffEveryRunCompleted ==
    \A c \in Chains :
        LET k == cycles[c] IN
        Listed(k) =>
            /\ (k.rechecks = 0 /\ k.outcome # "PENDING")
                   <=> (\A i \in 1..Len(k.checkRuns) : k.checkRuns[i].status = "completed")
            /\ k.checkRuns = <<>> =>
                   k.mergeCalls = 1 /\ k.rechecks = 0 /\ k.timers = <<>> /\ k.outcome # "BLOCKED"

\* a cycle of a check event that listed no check run and issued the merge call
C11_Witness ==
    \E c \in Chains :
        /\ Listed(cycles[c])
        /\ cycles[c].origin = "check"
        /\ cycles[c].checkRuns = <<>>
        /\ cycles[c].mergeCalls = 1

\* C12: a cycle that listed check runs which are all completed, one of them
\* with the conclusion failure, cancelled, timed_out or action_required, has
\* issued no merge call: it ended blocked, whatever the latest reviews and the
\* thresholds.
C12_BlockingConclusionNeverMerges ==
    \A c \in Chains :
        LET k == cycles[c] IN
        /\ Listed(k)
        /\ \A i \in 1..Len(k.checkRuns) : k.checkRuns[i].status = "completed"
        /\ \E i \in 1..Len(k.checkRuns) : k.checkRuns[i].conclusion \in BlockingConclusions
        => k.mergeCalls = 0 /\ k.outcome = "BLOCKED" /\ k.log = "There are blocking checks"

\* both reviewers approve, a check run succeeded and another was cancelled
C12_Witness ==
    \E c \in Chains :
        /\ Listed(cycles[c])
        /\ Reviewers(cycles[c].latestReviews, "APPROVED") = Users
        /\ \E i, j \in 1..Len(cycles[c].checkRuns) :
              /\ cycles[c].checkRuns[i].conclusion = "success"
              /\ cycles[c].checkRuns[j].conclusion = "cancelled"
        /\ cycles[c].mergeCalls = 0

\* the cycle has run its rules on a pull request object
Entered(k) == k.pc \notin {"idle", "getPR"} /\ k.failed # "pullRequests.get"

\* C13: a cycle whose pull request object is not open, is merged, or has
\* mergeable false or null has ended blocked, whatever the platform would have
\* answered for reviews and check runs: it asked for neither, issued no merge
\* call and scheduled no recheck.
C13_UnfitPullRequestIsBlocked ==
    \A c \in Chains :
        LET k == cycles[c] IN
        /\ Entered(k)
        /\ \/ k.pullRequest.state # "open"
           \/ k.pullRequest.merged
           \/ k.pullRequest.mergeable \in {"false", "null"}
        => /\ k.pc = "done"
           /\ k.outcome = "BLOCKED"
           /\ k.mergeCalls = 0
           /\ k.rechecks = 0
           /\ k.timers = <<>>
           /\ k.reviewReads = 0 /\ k.checkReads = 0

\* an open, unmerged pull request whose mergeable flag is null
C13_Witness ==
    \E c \in Chains :
        /\ Entered(cycles[c])
        /\ cycles[c].pullRequest.state = "open"
        /\ ~cycles[c].pullRequest.merged
        /\ cycles[c].pullRequest.mergeable = "null"
        /\ cycles[c].log = "Pull request is not mergeable"

\* the cycle has the answer of getReviews
Reviewed(k) ==
    /\ k.reviewReads = 1
    /\ k.pc \in {"listChecks", "merge", "done"}
    /\ k.failed # "pullRequests.getReviews"

ThresholdsMet(k) ==
    /\ Cardinality(Reviewers(k.latestReviews, "CHANGES_REQUESTED")) <= k.config.minApprovals
    /\ Cardinality(Reviewers(k.latestReviews, "APPROVED")) >= k.config.maxRequestedChanges

ChecksPass(k) ==
    /\ Listed(k)
    /\ \A i \in 1..Len(k.checkRuns) :
          /\ k.checkRuns[i].status = "completed"
          /\ k.checkRuns[i].conclusion \notin BlockingConclusions

\* C14: of a cycle on an open, unmerged, mergeable pull request that has the
\* reviews: if the CHANGES_REQUESTED count exceeds minApprovals or the APPROVED
\* count is below maxRequestedChanges it has issued no merge call; otherwise,
\* once it listed check runs that are all completed with no blocking
\* conclusion, it has issued the merge call.  So with the default config it
\* has issued it with at most one reviewer requesting changes, whatever the
\* number of approvals.
C14_MergeIffThresholdsMet ==
    \A c \in Chains :
        LET k == cycles[c] IN
        Reviewed(k) =>
            /\ ~ThresholdsMet(k) => k.mergeCalls = 0 /\ k.pc = "done"
            /\ ThresholdsMet(k) /\ ChecksPass(k) => k.mergeCalls = 1
            /\ /\ k.config = defaultConfig
               /\ Cardinality(Reviewers(k.latestReviews, "CHANGES_REQUESTED")) <= 1
               /\ ChecksPass(k)
               => k.mergeCalls = 1

\* the default config, one reviewer requesting changes, nobody approving
C14_Witness ==
    \E c \in Chains :
        /\ Reviewed(cycles[c])
        /\ cycles[c].config = defaultConfig
        /\ Cardinality(Reviewers(cycles[c].latestReviews, "CHANGES_REQUESTED")) = 1
        /\ Reviewers(cycles[c].latestReviews, "APPROVED") = {}
        /\ ChecksPass(cycles[c])
        /\ cycles[c].checkRuns # <<>>
        /\ cycles[c].mergeCalls = 1

\* C16: a cycle that listed check runs of which one is not completed and
\* another completed with a blocking conclusion has ended pending with a
\* recheck scheduled, not blocked.
C16_PendingBeforeBlocking ==
    \A c \in Chains :
        LET k == cycles[c] IN
        /\ Listed(k)
        /\ \E i \in 1..Len(k.checkRuns) : k.checkRuns[i].status # "completed"
        /\ \E j \in 1..Len(k.checkRuns) : k.checkRuns[j].conclusion \in BlockingConclusions
        => /\ k.outcome = "PENDING"
           /\ k.log = "There are still pending checks. Scheduling recheck."
           /\ k.rechecks = 1
           /\ k.timers # <<>>

\* a run in progress beside a failed one
C16_Witness ==
    \E c \in Chains :
        /\ Listed(cycles[c])
        /\ cycles[c].outcome = "PENDING"
        /\ \E i, j \in 1..Len(cycles[c].checkRuns) :
              /\ cycles[c].checkRuns[i].status = "in_progress"
              /\ cycles[c].checkRuns[j].conclusion = "failure"

\* C17: a cycle that has the reviews and finds the CHANGES_REQUESTED count above
\* minApprovals or the APPROVED count below maxRequestedChanges has ended
\* blocked without listing the check runs and without scheduling a recheck,
\* whatever state the check runs are in.
C17_ThresholdsBeforeChecks ==
    \A c \in Chains :
        LET k == cycles[c] IN
        Reviewed(k) /\ ~ThresholdsMet(k) =>
            /\ k.pc = "done"
            /\ k.outcome = "BLOCKED"
            /\ k.checkReads = 0
            /\ k.checkRuns = <<>>
            /\ k.rechecks = 0
            /\ k.timers = <<>>

\* a recheck blocked for want of approvals
C17_Witness ==
    \E c \in Chains :
        /\ Reviewed(cycles[c])
        /\ cycles[c].origin = "timer"
        /\ cycles[c].log = "There are not enough approvals by reviewers"
        /\ cycles[c].checkReads = 0

\* C20: a cycle has issued at most one merge call and scheduled at most one
\* recheck, never both, and a chain has at most one recheck pending.
C20_AtMostOneMergeOrRecheck ==
    \A c \in Chains :
        /\ cycles[c].mergeCalls <= 1
        /\ cycles[c].rechecks <= 1
        /\ cycles[c].mergeCalls + cycles[c].rechecks <= 1
        /\ Len(cycles[c].timers) <= 1

\* a recheck that scheduled the next recheck of its chain
C20_Witness ==
    \E c \in Chains :
        /\ cycles[c].origin = "timer"
        /\ cycles[c].rechecks = 1
        /\ cycles[c].mergeCalls = 0
        /\ Len(cycles[c].timers) = 1

\* C18: a cycle that a timer started runs with the config of the cycle its
\* chain's event triggered and on a pull request object with that cycle's head
\* commit, which is the commit it lists the check runs of; it reads neither
\* the pull request nor the config again, only the reviews and the check runs,
\* once each.  The same holds of what a pending recheck of the chain will run
\* with.
C18_RechecksKeepHeadAndConfig ==
    \A c \in Chains :
        LET k == cycles[c] IN
        /\ k.origin = "timer" =>
              /\ k.config = k.first.config
              /\ k.pullRequest.sha = k.first.sha
              /\ k.checkReads = 1 => k.ref = k.first.sha
              /\ k.prReads = 0
              /\ k.reviewReads <= 1 /\ k.checkReads <= 1
        /\ \A i \in 1..Len(k.timers) :
              /\ k.timers[i].config = k.first.config
              /\ k.timers[i].pullRequest.sha = k.first.sha

\* a recheck on the second head commit under a config other than the default
\* that listed the check runs and scheduled the next recheck
C18_Witness ==
    \E c \in Chains :
        /\ cycles[c].origin = "timer"
        /\ cycles[c].first.sha = "sha2"
        /\ cycles[c].first.config # defaultConfig
        /\ cycles[c].checkReads = 1
        /\ cycles[c].ref = "sha2"
        /\ cycles[c].rechecks = 1

\* the cycle has decided, and no platform read of it failed
Decided(k) == k.pc \in {"merge", "done"} /\ k.failed \notin PlatformReads

\* what it decided: the merge call, a recheck, or the reason it is blocked for
Decision(k) ==
    IF k.mergeCalls > 0 THEN "merge"
    ELSE IF k.rechecks > 0 THEN "pending"
    ELSE k.log

\* C15: two cycles that decided on the same pull request object, the same
\* latest reviews, the same config and the same check runs decided the same:
\* both issued the merge call, both scheduled a recheck, or both are blocked
\* for the same reason, whatever started them and whatever the platform held
\* meanwhile.
C15_SameInputsSameDecision ==
    \A c, d \in Chains :
        LET k == cycles[c]
            l == cycles[d] IN
        /\ Decided(k) /\ Decided(l)
        /\ k.pullRequest = l.pullRequest
        /\ k.config = l.config
        /\ k.latestReviews = l.latestReviews
        /\ k.checkRuns = l.checkRuns
        => /\ Decision(k) = Decision(l)
           /\ k.mergeCalls = l.mergeCalls
           /\ k.rechecks = l.rechecks

\* a recheck and a cycle of a check event that issued the merge call on the
\* same inputs, the second after the first had merged the pull request
C15_Witness ==
    \E c, d \in Chains :
        /\ c # d
        /\ cycles[c].origin = "timer" /\ cycles[d].origin = "pull_request"
        /\ cycles[c].outcome = "MERGED"
        /\ cycles[d].mergeCalls = 1 /\ cycles[d].pc = "merge"
        /\ cycles[c].pullRequest = cycles[d].pullRequest
        /\ cycles[c].config = cycles[d].config
        /\ cycles[c].latestReviews = cycles[d].latestReviews
        /\ cycles[c].latestReviews # NoReviews
        /\ cycles[c].checkRuns = cycles[d].checkRuns
        /\ cycles[c].checkRuns # <<>>

\* a step in which a platform call of a cycle failed
CallFails ==
    \E c \in Chains : cycles'[c].failed # "none" /\ cycles[c].failed = "none"

\* a step in which listForRef answered with a check run that is not completed
ListsPendingRun ==
    \E c \in Chains :
        /\ cycles[c].pc = "listChecks" /\ cycles'[c].pc # "listChecks"
        /\ \E i \in 1..Len(cycles'[c].checkRuns) :
              cycles'[c].checkRuns[i].status # "completed"

\* the chain is over: its last cycle ended, with the merge call or BLOCKED
\* unless a call of it failed, and no recheck is scheduled
Stopped(c) ==
    LET k == cycles[c] IN
    \/ k.pc = "idle"
    \/ /\ k.pc = "done"
       /\ k.timers = <<>>
       /\ k.failed = "none" => k.mergeCalls = 1 \/ k.outcome = "BLOCKED"

\* C19: if from some point on no listing holds a check run that is not
\* completed and no platform call fails, then, the awaited calls answering and
\* the timers firing, every chain stops for good: its last cycle ended with the
\* merge call or BLOCKED and no recheck is outstanding.
C19_ChainsEventuallyStop ==
    <>[][~CallFails /\ ~ListsPendingRun]_vars => \A c \in Chains : <>[]Stopped(c)

\* a chain that rechecked while a check run was pending and stopped with the
\* merge once the run had completed
C19_Witness ==
    \E c \in Chains :
        /\ cycles[c].origin = "timer"
        /\ cycles[c].outcome = "MERGED"
        /\ cycles[c].timers = <<>>
        /\ Len(cycles[c].checkRuns) = 1
        /\ cycles[c].checkRuns[1].status = "completed"

====
